---- MODULE Spec2Model ----
(***************************************************************************)
(* Inherent generation of the Albatross blockchain                         *)
(* (blockchain-albatross/src/blockchain/inherents.rs):                     *)
(*   - Blockchain::finalize_previous_batch, stepped through its per-band   *)
(*     loop, the scan of the slashed set, the acceptance query, the        *)
(*     remainder lottery and the two trailing inherents;                   *)
(*   - Blockchain::create_slash_inherents with inherent_from_fork_proof    *)
(*     and inherents_from_view_changes.                                    *)
(* A panic (failed assert!, unwrap, expect, index out of bounds) ends a    *)
(* call in the position "panic": nothing is returned.                      *)
(***************************************************************************)
EXTENDS Integers, Sequences, FiniteSets, TLC

(* ------------------------------ bounds --------------------------------- *)

\* policy::SLOTS, scaled down: the slot indices are 0 .. SLOTS-1.
SLOTS == 3

\* batch_at(macro_header.block_number) ranges over 1 .. MaxBatch.
MaxBatch == 2

\* block_reward_for_batch(..) ranges over 0 .. MaxBlockReward.
MaxBlockReward == 3

\* chain_info.cum_tx_fees ranges over 0 .. MaxTxFees.
MaxTxFees == 2

\* fork_proofs holds at most MaxProofs proofs.
MaxProofs == 2

\* view numbers range over 0 .. MaxView.
MaxView == 2

\* The number of distinct listen addresses.
MaxAddresses == 3

\* A message sent over a NimiqMessageStream takes at most MaxChunks chunks.
MaxChunks == 2

\* At most MaxInFlight chunks are accepted by the sender's inner sink and not yet
\* taken off the receiver's ws_queue.
MaxInFlight == 2

\* The sender's inner sink answers NotReady at most MaxNotReady times.
MaxNotReady == 2

\* stream.rs: MAX_CHUNK_SIZE, MAX_MESSAGE_SIZE and the modulus of the tags.
MAX_CHUNK_SIZE == 16384

MAX_MESSAGE_SIZE == 10485760

TagModulus == 255

\* Block numbers carried by the evidence.
BlockNumbers == {1, 2}

(* ------------------------------ state ---------------------------------- *)

VARIABLES
    validator_registry,  \* NetworkInfo::validator_registry_address(): <<>> or <<address>>
    \* finalize_previous_batch: inputs
    batch_number,        \* policy::batch_at(macro_header.block_number)
    validator_slots,     \* state.previous_slots.validator_slots: sequence of bands
    lost_rewards_set,    \* staking_contract.previous_lost_rewards()
    disabled_set,        \* staking_contract.previous_disabled_slots()
    block_reward,        \* block_reward_for_batch(..)
    cum_tx_fees,         \* chain_info.cum_tx_fees
    \* finalize_previous_batch: locals
    pc,                  \* position in finalize_previous_batch
    band,                \* index of the band the for loop is at
    first_slot_number,
    slashed_set_iter,    \* what the peekable iterator has not yet yielded, ascending
    num_eligible_slots,
    num_slashed_slots,
    inherents,
    num_eligible_slots_for_accepted_inherent,
    burned_reward,
    answers,             \* the answers check_inherent gave so far, one per band
    index,               \* the index the lottery drew, 0 while none was drawn
    \* create_slash_inherents: inputs
    fork_proofs,         \* sequence of [block_number, view_number] (header1)
    view_changes,        \* <<>> (None) or <<[block_number, first_view_number, last_view_number]>>
    \* create_slash_inherents: locals
    sl_pc,               \* position in create_slash_inherents
    sl_i,                \* index of the fork proof the for loop is at
    sl_view,             \* the view number the range iterator yields next
    vc_inherents,        \* what inherents_from_view_changes has collected
    sl_inherents,        \* the vector create_slash_inherents builds
    sl_resolved,         \* whether get_slot_at resolved, one answer per call so far
    \* finalize_previous_epoch
    ep_pc,               \* position in finalize_previous_epoch
    ep_inherent,         \* <<>> or <<the inherent it returned>>
    \* NatState (network-libp2p/src/autonat.rs)
    confirmed_addresses,
    listen_address_status,
    status,
    nat_called,          \* whether a NatState operation was called since construction
    \* NimiqMessageStream (network/src/websocket/stream.rs): a sending stream, the
    \* receiving stream of its peer, and the WebSocket layer between them
    sending_tag,         \* the sender's sending_tag
    not_ready,           \* <<>> or <<the message start_send handed back as NotReady>>
    not_ready_answers,   \* how many times the sender's inner sink has answered NotReady
    inner,               \* chunks the sender's inner sink accepted, not yet polled by the peer
    receiving_tag,       \* the receiver's receiving_tag
    ws_queue,            \* the receiver's ws_queue
    msg_buf,             \* the receiver's msg_buf: <<>> or <<[capacity, len]>>
    poll_result          \* what the receiver's last poll returned

batch_vars == <<batch_number, validator_slots, lost_rewards_set, disabled_set,
                block_reward, cum_tx_fees, pc, band, first_slot_number,
                slashed_set_iter, num_eligible_slots, num_slashed_slots, inherents,
                num_eligible_slots_for_accepted_inherent, burned_reward, answers, index>>

slash_vars == <<fork_proofs, view_changes, sl_pc, sl_i, sl_view, vc_inherents, sl_inherents,
                sl_resolved>>

epoch_vars == <<ep_pc, ep_inherent>>

nat_vars == <<confirmed_addresses, listen_address_status, status, nat_called>>

stream_vars == <<sending_tag, not_ready, not_ready_answers, inner, receiving_tag, ws_queue, msg_buf, poll_result>>

vars == <<validator_registry, batch_vars, slash_vars, epoch_vars, nat_vars, stream_vars>>

(* ------------------------------ helpers -------------------------------- *)

Min(S) == CHOOSE x \in S : \A y \in S : x <= y

\* Iteration order of the slashed BitSet: ascending.
RECURSIVE Ascending(_)
Ascending(S) ==
    IF S = {} THEN <<>> ELSE <<Min(S)>> \o Ascending(S \ {Min(S)})

\* All sequences of band sizes >= 1 that add up to n.
RECURSIVE Compositions(_)
Compositions(n) ==
    IF n = 0 THEN {<<>>}
    ELSE UNION {{<<k>> \o c : c \in Compositions(n - k)} : k \in 1..n}

(* ------------------------------ data model ----------------------------- *)

BurnAddress == [kind |-> "burn", id |-> 0]

ValidatorRegistryAddress == [kind |-> "validator_registry", id |-> 0]

RewardAddress(i) == [kind |-> "reward_address", id |-> i]

Inherent(ty, target, value, data) ==
    [ty |-> ty, target |-> target, value |-> value, data |-> data]

\* The previous batch's bands: band i holds sizes[i] slots and pays RewardAddress(i).
Bands(sizes) ==
    [i \in 1..Len(sizes) |-> [num_slots |-> sizes[i], reward_address |-> RewardAddress(i)]]

(* ---------------------- finalize_previous_batch ------------------------ *)

\* Faulty variant: tests the current batch instead of the one being finalized.
IsFirstBatchWithoutDecrement(batch) == batch = 0

\* Special case for the first batch: policy::batch_at(block_number) - 1 == 0.
IsFirstBatch(batch) == batch - 1 = 0

\* Faulty variant: an index in either set counts as slashed.
SlashedSetOfEither(lost, disabled) == lost \cup disabled

SlashedSet(lost, disabled) == lost \cap disabled

RewardPot == block_reward + cum_tx_fees

SlotReward(reward_pot) == reward_pot \div SLOTS

Remainder(reward_pot) == reward_pot % SLOTS

BandReward(slot_reward, eligible) == slot_reward * eligible

\* Faulty variant: a rejected band's reward is not burned.
BurnedAfterBandKeepingRejected(burned, slot_reward, slashed, reward, accepted) ==
    burned + slot_reward * slashed

\* burned_reward after a band whose inherent was accepted or rejected.
BurnedAfterBand(burned, slot_reward, slashed, reward, accepted) ==
    IF accepted THEN burned + slot_reward * slashed
    ELSE (burned + slot_reward * slashed) + reward

\* inherents after a band.
InherentsAfterBand(list, inherent, accepted) ==
    IF accepted THEN Append(list, inherent) ELSE list

\* Faulty variant: a weight is recorded for a rejected band too.
WeightsAfterBandAlways(weights, eligible, accepted) == Append(weights, eligible)

\* num_eligible_slots_for_accepted_inherent after a band.
WeightsAfterBand(weights, eligible, accepted) ==
    IF accepted THEN Append(weights, eligible) ELSE weights

\* The indices lookup.sample(rng) can return for some seed of the macro header:
\* AliasMethod draws i with probability weights[i] / sum(weights).
Sample(weights) == {i \in 1..Len(weights) : weights[i] > 0}

\* Faulty variant: every accepted inherent receives the remainder.
AddRemainderToAll(list, i, remainder) ==
    [k \in 1..Len(list) |-> [list[k] EXCEPT !.value = @ + remainder]]

\* inherents[index].value += remainder
AddRemainder(list, i, remainder) ==
    [list EXCEPT ![i].value = @ + remainder]

BurnInherent(burned) == Inherent("Reward", BurnAddress, burned, <<>>)

FinalizeBatchInherent(registry) == Inherent("FinalizeBatch", registry, 0, <<>>)

\* Faulty variant: a burn inherent of value 0 is left out.
PushTrailingElidingZeroBurn(list, burned, registry) ==
    IF burned = 0 THEN Append(list, FinalizeBatchInherent(registry))
    ELSE Append(Append(list, BurnInherent(burned)), FinalizeBatchInherent(registry))

\* The two trailing pushes: the burn inherent, then FinalizeBatch.
PushTrailing(list, burned, registry) ==
    Append(Append(list, BurnInherent(burned)), FinalizeBatchInherent(registry))

\* Faulty variant: the sets are taken out of the staking contract.
StakingSetsTaken(lost, disabled) == <<{}, {}>>

\* What lines 118 and 134-136 leave in the staking contract: previous_lost_rewards()
\* and previous_disabled_slots() are read, nothing is written.
StakingSetsAfterRead(lost, disabled) == <<lost, disabled>>

\* Lines 114-170: the early return, then the locals.
Start ==
    /\ pc = "start"
    /\ IF IsFirstBatch(batch_number)
       THEN /\ pc' = "returned"
            /\ UNCHANGED <<band, first_slot_number, slashed_set_iter>>
       ELSE /\ pc' = "band"
            /\ band' = 1
            /\ first_slot_number' = 0
            /\ slashed_set_iter' = Ascending(SlashedSet(lost_rewards_set, disabled_set))
    /\ lost_rewards_set' = StakingSetsAfterRead(lost_rewards_set, disabled_set)[1]
    /\ disabled_set' = StakingSetsAfterRead(lost_rewards_set, disabled_set)[2]
    /\ UNCHANGED <<num_eligible_slots, num_slashed_slots, inherents,
                   num_eligible_slots_for_accepted_inherent, burned_reward, answers, index>>
    /\ UNCHANGED <<batch_number, validator_slots,
                   block_reward, cum_tx_fees, validator_registry, slash_vars, epoch_vars, nat_vars, stream_vars>>

LastSlotNumber == first_slot_number + validator_slots[band].num_slots

\* Lines 173-181: the head of the for loop.
BandBegin ==
    /\ pc = "band"
    /\ IF band > Len(validator_slots)
       THEN /\ pc' = "lottery"
            /\ UNCHANGED <<num_eligible_slots, num_slashed_slots>>
       ELSE /\ pc' = "scan"
            /\ num_eligible_slots' = validator_slots[band].num_slots
            /\ num_slashed_slots' = 0
    /\ UNCHANGED <<band, first_slot_number, slashed_set_iter, inherents,
                   num_eligible_slots_for_accepted_inherent, burned_reward, answers, index>>
    /\ UNCHANGED <<batch_number, validator_slots, lost_rewards_set, disabled_set,
                   block_reward, cum_tx_fees, validator_registry, slash_vars, epoch_vars, nat_vars, stream_vars>>

\* What one pass of the while-let body does to the iterator. The body holds no
\* slashed_set_iter.next(): the slot it counted stays at the head.
IterAfterCountedSlot(iter) == iter

\* Lines 183-193: one evaluation of the while-let and its body.
ScanStep ==
    /\ pc = "scan"
    /\ IF slashed_set_iter = <<>>
       THEN /\ pc' = "reward"
            /\ UNCHANGED <<num_eligible_slots, num_slashed_slots, slashed_set_iter>>
       ELSE LET next_slashed_slot == Head(slashed_set_iter) IN
            IF ~(next_slashed_slot >= first_slot_number)
            THEN /\ pc' = "panic"
                 /\ UNCHANGED <<num_eligible_slots, num_slashed_slots, slashed_set_iter>>
            ELSE IF next_slashed_slot < LastSlotNumber
            THEN IF ~(num_eligible_slots > 0)
                 THEN /\ pc' = "panic"
                      /\ UNCHANGED <<num_eligible_slots, num_slashed_slots, slashed_set_iter>>
                 ELSE /\ pc' = "scan"
                      /\ num_eligible_slots' = num_eligible_slots - 1
                      /\ num_slashed_slots' = num_slashed_slots + 1
                      /\ slashed_set_iter' = IterAfterCountedSlot(slashed_set_iter)
            ELSE /\ pc' = "reward"
                 /\ UNCHANGED <<num_eligible_slots, num_slashed_slots, slashed_set_iter>>
    /\ UNCHANGED <<band, first_slot_number, inherents,
                   num_eligible_slots_for_accepted_inherent, burned_reward, answers, index>>
    /\ UNCHANGED <<batch_number, validator_slots, lost_rewards_set, disabled_set,
                   block_reward, cum_tx_fees, validator_registry, slash_vars, epoch_vars, nat_vars, stream_vars>>

\* Lines 195-232: the band's reward, the acceptance query, the next band.
BandRewardStep ==
    /\ pc = "reward"
    /\ \E accepted \in BOOLEAN :
        LET slot_reward == SlotReward(RewardPot)
            reward == BandReward(slot_reward, num_eligible_slots)
            inherent == Inherent("Reward", validator_slots[band].reward_address, reward, <<>>)
        IN  /\ answers' = Append(answers, accepted)
            /\ burned_reward' = BurnedAfterBand(burned_reward, slot_reward,
                                                num_slashed_slots, reward, accepted)
            /\ inherents' = InherentsAfterBand(inherents, inherent, accepted)
            /\ num_eligible_slots_for_accepted_inherent' =
                   WeightsAfterBand(num_eligible_slots_for_accepted_inherent,
                                    num_eligible_slots, accepted)
    /\ first_slot_number' = LastSlotNumber
    /\ band' = band + 1
    /\ pc' = "band"
    /\ UNCHANGED <<slashed_set_iter, num_eligible_slots, num_slashed_slots, index>>
    /\ UNCHANGED <<batch_number, validator_slots, lost_rewards_set, disabled_set,
                   block_reward, cum_tx_fees, validator_registry, slash_vars, epoch_vars, nat_vars, stream_vars>>

\* Lines 238-274: the lottery, the burn inherent, the FinalizeBatch inherent.
\* Without an accepted inherent, inherents[index] is out of bounds for every index.
LotteryStep ==
    /\ pc = "lottery"
    /\ IF Len(inherents) # Len(num_eligible_slots_for_accepted_inherent)
          \/ Sample(num_eligible_slots_for_accepted_inherent) = {}
       THEN /\ pc' = "panic"
            /\ UNCHANGED <<inherents, index>>
       ELSE \E drawn \in Sample(num_eligible_slots_for_accepted_inherent) :
            /\ index' = drawn
            /\ IF validator_registry = <<>>
               THEN /\ pc' = "panic"
                    /\ inherents' = Append(AddRemainder(inherents, drawn, Remainder(RewardPot)),
                                           BurnInherent(burned_reward))
               ELSE /\ pc' = "returned"
                    /\ inherents' = PushTrailing(
                           AddRemainder(inherents, drawn, Remainder(RewardPot)),
                           burned_reward, validator_registry[1])
    /\ UNCHANGED <<band, first_slot_number, slashed_set_iter, num_eligible_slots,
                   num_slashed_slots, num_eligible_slots_for_accepted_inherent,
                   burned_reward, answers>>
    /\ UNCHANGED <<batch_number, validator_slots, lost_rewards_set, disabled_set,
                   block_reward, cum_tx_fees, validator_registry, slash_vars, epoch_vars, nat_vars, stream_vars>>

SlashIdle ==
    /\ fork_proofs = <<>>
    /\ view_changes = <<>>
    /\ sl_pc = "idle"
    /\ sl_i = 1
    /\ sl_view = 0
    /\ vc_inherents = <<>>
    /\ sl_inherents = <<>>
    /\ sl_resolved = <<>>

EpochIdle ==
    /\ ep_pc = "idle"
    /\ ep_inherent = <<>>

\* NatState::default(): empty maps, status Unknown.
NatDefault ==
    /\ confirmed_addresses = {}
    /\ listen_address_status = <<>>
    /\ status = "Unknown"
    /\ nat_called = FALSE

\* Lines 74-89, NimiqMessageStream::new, for the stream at either end: nothing
\* sent, nothing received, and nothing in the WebSocket layer.
StreamNew ==
    /\ sending_tag = 0
    /\ not_ready = <<>>
    /\ not_ready_answers = 0
    /\ inner = <<>>
    /\ receiving_tag = 254
    /\ ws_queue = <<>>
    /\ msg_buf = <<>>
    /\ poll_result = "NotPolled"

InitBatch ==
    /\ validator_registry \in {<<>>, <<ValidatorRegistryAddress>>}
    /\ batch_number \in 1..MaxBatch
    /\ validator_slots \in {Bands(sizes) : sizes \in Compositions(SLOTS)}
    /\ lost_rewards_set \in SUBSET (0..(SLOTS - 1))
    /\ disabled_set \in SUBSET (0..(SLOTS - 1))
    /\ block_reward \in 0..MaxBlockReward
    /\ cum_tx_fees \in 0..MaxTxFees
    /\ pc = "start"
    /\ band = 1
    /\ first_slot_number = 0
    /\ slashed_set_iter = <<>>
    /\ num_eligible_slots = 0
    /\ num_slashed_slots = 0
    /\ inherents = <<>>
    /\ num_eligible_slots_for_accepted_inherent = <<>>
    /\ burned_reward = 0
    /\ answers = <<>>
    /\ index = 0
    /\ SlashIdle
    /\ EpochIdle
    /\ NatDefault
    /\ StreamNew

NextBatch == Start \/ BandBegin \/ ScanStep \/ BandRewardStep \/ LotteryStep

SpecBatch == InitBatch /\ [][NextBatch]_vars

(* ----------------------- create_slash_inherents ------------------------ *)

\* get_slot_at(block_number, view_number, txn): the producer and the slot the
\* resolver names, one distinct pair per (block_number, view_number).
get_slot_at(block_number, view_number) ==
    [producer |-> [public_key |-> <<"public_key", block_number, view_number>>],
     slot |-> <<"slot", block_number, view_number>>]

SlashedSlot(slot, validator_key, event_block) ==
    [slot |-> slot, validator_key |-> validator_key, event_block |-> event_block]

\* slot.serialize_to_vec(): the fields in declaration order.
serialize_to_vec(slashed_slot) ==
    <<slashed_slot.slot, slashed_slot.validator_key, slashed_slot.event_block>>

\* The Slash inherent both builders make from a resolved (producer, slot).
SlashInherent(registry, resolved, event_block) ==
    Inherent("Slash", registry, 0,
             serialize_to_vec(SlashedSlot(resolved.slot, resolved.producer.public_key,
                                          event_block)))

\* Faulty variant: the slot is resolved at header1 but event_block is the view.
inherent_from_fork_proof_event_view(registry, fork_proof) ==
    SlashInherent(registry,
                  get_slot_at(fork_proof.block_number, fork_proof.view_number),
                  fork_proof.view_number)

\* Lines 52-71 of inherent_from_fork_proof, once the slot is resolved.
inherent_from_fork_proof(registry, fork_proof) ==
    SlashInherent(registry,
                  get_slot_at(fork_proof.block_number, fork_proof.view_number),
                  fork_proof.block_number)

\* Lines 86-103: the closure inherents_from_view_changes maps over the views.
inherent_from_view_change(registry, vc, view_number) ==
    SlashInherent(registry, get_slot_at(vc.block_number, view_number), vc.block_number)

\* Faulty variant: the range includes last_view_number.
RangeYieldsInclusive(vc, view_number) == view_number <= vc.last_view_number

\* Whether the range first_view_number..last_view_number yields view_number.
RangeYields(vc, view_number) == view_number < vc.last_view_number

\* Faulty variant: the vector is overwritten instead of extended.
PushForkProofReplacing(list, inherent) == <<inherent>>

\* inherents.push(self.inherent_from_fork_proof(..))
PushForkProof(list, inherent) == Append(list, inherent)

\* Faulty variant: the view-change inherents are put in front.
AppendViewChangesInFront(list, from_view_changes) == from_view_changes \o list

\* inherents.append(&mut self.inherents_from_view_changes(..))
AppendViewChanges(list, from_view_changes) == list \o from_view_changes

\* Faulty variant: an unresolved slot is passed over.
UnwrapNeverPanics(resolves) == FALSE

\* get_slot_at(..).unwrap(): panics when the resolver returned no slot.
UnwrapPanics(resolves) == ~resolves

\* Lines 31-35: one pass of the for loop over fork_proofs, or leaving it.
ForkProofStep ==
    /\ sl_pc = "fork_proofs"
    /\ IF sl_i <= Len(fork_proofs)
       THEN IF validator_registry = <<>>
            THEN /\ sl_pc' = "panic"
                 /\ UNCHANGED <<sl_i, sl_view, sl_inherents, sl_resolved>>
            ELSE \E resolves \in BOOLEAN :
                 /\ sl_resolved' = Append(sl_resolved, resolves)
                 /\ IF UnwrapPanics(resolves)
                    THEN /\ sl_pc' = "panic"
                         /\ UNCHANGED <<sl_i, sl_view, sl_inherents>>
                    ELSE /\ sl_inherents' = PushForkProof(sl_inherents,
                                 inherent_from_fork_proof(validator_registry[1],
                                                          fork_proofs[sl_i]))
                         /\ sl_i' = sl_i + 1
                         /\ UNCHANGED <<sl_pc, sl_view>>
       ELSE IF view_changes = <<>>
       THEN /\ sl_pc' = "returned"
            /\ UNCHANGED <<sl_i, sl_view, sl_inherents, sl_resolved>>
       ELSE IF validator_registry = <<>>
       THEN /\ sl_pc' = "panic"
            /\ UNCHANGED <<sl_i, sl_view, sl_inherents, sl_resolved>>
       ELSE /\ sl_pc' = "view_changes"
            /\ sl_view' = view_changes[1].first_view_number
            /\ UNCHANGED <<sl_i, sl_inherents, sl_resolved>>
    /\ UNCHANGED <<fork_proofs, view_changes, vc_inherents, validator_registry, batch_vars, epoch_vars, nat_vars, stream_vars>>

\* Lines 84-105 and 36: one view number of the range, or the collected vector
\* appended to inherents.
ViewChangesStep ==
    /\ sl_pc = "view_changes"
    /\ IF RangeYields(view_changes[1], sl_view)
       THEN \E resolves \in BOOLEAN :
            /\ sl_resolved' = Append(sl_resolved, resolves)
            /\ IF UnwrapPanics(resolves)
               THEN /\ sl_pc' = "panic"
                    /\ UNCHANGED <<sl_view, vc_inherents, sl_inherents>>
               ELSE /\ vc_inherents' = Append(vc_inherents,
                            inherent_from_view_change(validator_registry[1],
                                                      view_changes[1], sl_view))
                    /\ sl_view' = sl_view + 1
                    /\ UNCHANGED <<sl_pc, sl_inherents>>
       ELSE /\ sl_inherents' = AppendViewChanges(sl_inherents, vc_inherents)
            /\ sl_pc' = "returned"
            /\ UNCHANGED <<sl_view, vc_inherents, sl_resolved>>
    /\ UNCHANGED <<fork_proofs, view_changes, sl_i, validator_registry, batch_vars, epoch_vars, nat_vars, stream_vars>>

ForkProofs ==
    UNION {[1..n -> [block_number : BlockNumbers, view_number : 0..MaxView]] : n \in 0..MaxProofs}

\* ViewChanges as the block layer hands them over: first_view_number <= last_view_number.
ViewChangesValues ==
    {vc \in [block_number : BlockNumbers, first_view_number : 0..MaxView,
             last_view_number : 0..MaxView] : vc.first_view_number <= vc.last_view_number}

BatchIdle ==
    /\ batch_number = 1
    /\ validator_slots = <<>>
    /\ lost_rewards_set = {}
    /\ disabled_set = {}
    /\ block_reward = 0
    /\ cum_tx_fees = 0
    /\ pc = "idle"
    /\ band = 1
    /\ first_slot_number = 0
    /\ slashed_set_iter = <<>>
    /\ num_eligible_slots = 0
    /\ num_slashed_slots = 0
    /\ inherents = <<>>
    /\ num_eligible_slots_for_accepted_inherent = <<>>
    /\ burned_reward = 0
    /\ answers = <<>>
    /\ index = 0

InitSlash ==
    /\ validator_registry \in {<<>>, <<ValidatorRegistryAddress>>}
    /\ fork_proofs \in ForkProofs
    /\ view_changes \in {<<>>} \cup {<<vc>> : vc \in ViewChangesValues}
    /\ sl_pc = "fork_proofs"
    /\ sl_i = 1
    /\ sl_view = 0
    /\ vc_inherents = <<>>
    /\ sl_inherents = <<>>
    /\ sl_resolved = <<>>
    /\ BatchIdle
    /\ EpochIdle
    /\ NatDefault
    /\ StreamNew

NextSlash == ForkProofStep \/ ViewChangesStep

SpecSlash == InitSlash /\ [][NextSlash]_vars

(* ----------------------- finalize_previous_epoch ----------------------- *)

\* Faulty variant: the batch marker is emitted for the epoch.
FinalizeEpochInherentAsBatch(registry) == Inherent("FinalizeBatch", registry, 0, <<>>)

\* Lines 284-289.
FinalizeEpochInherent(registry) == Inherent("FinalizeEpoch", registry, 0, <<>>)

\* Lines 278-290: the registry address is resolved or the call panics.
FinalizePreviousEpoch ==
    /\ ep_pc = "start"
    /\ IF validator_registry = <<>>
       THEN /\ ep_pc' = "panic"
            /\ UNCHANGED ep_inherent
       ELSE /\ ep_pc' = "returned"
            /\ ep_inherent' = <<FinalizeEpochInherent(validator_registry[1])>>
    /\ UNCHANGED <<validator_registry, batch_vars, slash_vars, nat_vars, stream_vars>>

\* The chain and staking state at hand when finalize_previous_epoch is called:
\* any state finalize_previous_batch can be given.
InitEpoch ==
    /\ validator_registry \in {<<>>, <<ValidatorRegistryAddress>>}
    /\ batch_number \in 1..MaxBatch
    /\ validator_slots \in {Bands(sizes) : sizes \in Compositions(SLOTS)}
    /\ lost_rewards_set \in SUBSET (0..(SLOTS - 1))
    /\ disabled_set \in SUBSET (0..(SLOTS - 1))
    /\ block_reward \in 0..MaxBlockReward
    /\ cum_tx_fees \in 0..MaxTxFees
    /\ pc = "idle"
    /\ band = 1
    /\ first_slot_number = 0
    /\ slashed_set_iter = <<>>
    /\ num_eligible_slots = 0
    /\ num_slashed_slots = 0
    /\ inherents = <<>>
    /\ num_eligible_slots_for_accepted_inherent = <<>>
    /\ burned_reward = 0
    /\ answers = <<>>
    /\ index = 0
    /\ ep_pc = "start"
    /\ ep_inherent = <<>>
    /\ SlashIdle
    /\ NatDefault
    /\ StreamNew

NextEpoch == FinalizePreviousEpoch

SpecEpoch == InitEpoch /\ [][NextEpoch]_vars

(* ------------------------------ any call ------------------------------- *)

\* One call of finalize_previous_batch, of create_slash_inherents or of
\* finalize_previous_epoch.
InitCalls == InitBatch \/ InitSlash \/ InitEpoch

NextCalls == NextBatch \/ NextSlash \/ NextEpoch

SpecCalls == InitCalls /\ [][NextCalls]_vars

(* ------------------------------ NatState ------------------------------- *)

\* The listen addresses the swarm can report.
Addresses == 1..MaxAddresses

NatStatus == {"Public", "Private", "Unknown"}

\* HashMap::insert: the entry of key k is set to v, whether k was present or not.
MapInsert(m, k, v) == [x \in (DOMAIN m) \cup {k} |-> IF x = k THEN v ELSE m[x]]

\* HashMap::remove.
MapRemove(m, k) == [x \in (DOMAIN m) \ {k} |-> m[x]]

\* Lines 63-79: the overall status computed from the two collections.
update_state(confirmed, listen) ==
    IF confirmed # {}
    THEN "Public"
    ELSE IF \A a \in DOMAIN listen : listen[a] = "Private"
         THEN "Private"
         ELSE "Unknown"

\* Lines 21-24: the address is (re)entered as Unknown; update_state is not called.
add_listen_address(address) ==
    /\ listen_address_status' = MapInsert(listen_address_status, address, "Unknown")
    /\ nat_called' = TRUE
    /\ UNCHANGED <<confirmed_addresses, status>>

\* Lines 26-30.
remove_listen_address(address) ==
    /\ listen_address_status' = MapRemove(listen_address_status, address)
    /\ confirmed_addresses' = confirmed_addresses \ {address}
    /\ status' = update_state(confirmed_addresses', listen_address_status')
    /\ nat_called' = TRUE

\* Lines 32-43: nothing happens for an address that is not listed.
set_listen_address_nat_status(address, nat_status) ==
    /\ IF address \in DOMAIN listen_address_status
       THEN /\ listen_address_status' = MapInsert(listen_address_status, address, nat_status)
            /\ confirmed_addresses' = IF nat_status = "Public"
                                      THEN confirmed_addresses \cup {address}
                                      ELSE confirmed_addresses \ {address}
            /\ status' = update_state(confirmed_addresses', listen_address_status')
       ELSE UNCHANGED <<listen_address_status, confirmed_addresses, status>>
    /\ nat_called' = TRUE

\* Lines 45-52.
add_confirmed_address(address) ==
    /\ IF address \in DOMAIN listen_address_status
       THEN /\ listen_address_status' = MapInsert(listen_address_status, address, "Public")
            /\ confirmed_addresses' = confirmed_addresses \cup {address}
            /\ status' = update_state(confirmed_addresses', listen_address_status')
       ELSE UNCHANGED <<listen_address_status, confirmed_addresses, status>>
    /\ nat_called' = TRUE

\* Lines 54-61.
remove_confirmed_address(address) ==
    /\ IF address \in DOMAIN listen_address_status
       THEN /\ listen_address_status' = MapInsert(listen_address_status, address, "Private")
            /\ confirmed_addresses' = confirmed_addresses \ {address}
            /\ status' = update_state(confirmed_addresses', listen_address_status')
       ELSE UNCHANGED <<listen_address_status, confirmed_addresses, status>>
    /\ nat_called' = TRUE

AddListenAddress ==
    /\ \E address \in Addresses : add_listen_address(address)
    /\ UNCHANGED <<validator_registry, batch_vars, slash_vars, epoch_vars, stream_vars>>

RemoveListenAddress ==
    /\ \E address \in Addresses : remove_listen_address(address)
    /\ UNCHANGED <<validator_registry, batch_vars, slash_vars, epoch_vars, stream_vars>>

SetListenAddressNatStatus ==
    /\ \E address \in Addresses, nat_status \in NatStatus :
           set_listen_address_nat_status(address, nat_status)
    /\ UNCHANGED <<validator_registry, batch_vars, slash_vars, epoch_vars, stream_vars>>

AddConfirmedAddress ==
    /\ \E address \in Addresses : add_confirmed_address(address)
    /\ UNCHANGED <<validator_registry, batch_vars, slash_vars, epoch_vars, stream_vars>>

RemoveConfirmedAddress ==
    /\ \E address \in Addresses : remove_confirmed_address(address)
    /\ UNCHANGED <<validator_registry, batch_vars, slash_vars, epoch_vars, stream_vars>>

\* A freshly constructed NatState; the blockchain side is at rest.
InitNat ==
    /\ validator_registry = <<>>
    /\ BatchIdle
    /\ SlashIdle
    /\ EpochIdle
    /\ NatDefault
    /\ StreamNew

NextNat ==
    \/ AddListenAddress
    \/ RemoveListenAddress
    \/ SetListenAddressNatStatus
    \/ AddConfirmedAddress
    \/ RemoveConfirmedAddress

SpecNat == InitNat /\ [][NextNat]_vars

(* -------------------------- NimiqMessageStream ------------------------- *)
\* A sending NimiqMessageStream, the WebSocket layer, and the receiving
\* NimiqMessageStream of the peer.  Only Message::Message items are sent and
\* the layer hands over binary frames only, so both streams stay Active.

\* A message is known by the length of msg.serialize_to_vec(): the smallest and
\* the largest length that take k chunks, for every k up to MaxChunks.
MessageLengths ==
    UNION {{(k - 1) * (MAX_CHUNK_SIZE - 1) + 1, k * (MAX_CHUNK_SIZE - 1)} : k \in 1..MaxChunks}

\* Lines 133 and 257: the tag after tag, wrapping at 255.
NextTag(tag) == (tag + 1) % TagModulus

\* Lines 143-156 and 169: the chunks the while loop builds for a message of
\* length len when remaining bytes are left: each carries the tag, and the
\* first one starts with the message's header, which holds its length.
RECURSIVE ChunksBuilt(_, _, _)
ChunksBuilt(tag, len, remaining) ==
    IF ~(remaining > 0)
    THEN <<>>
    ELSE LET size == IF remaining + 1 >= MAX_CHUNK_SIZE
                     THEN MAX_CHUNK_SIZE - 1
                     ELSE remaining
             buffer == [tag |-> tag, len |-> size,
                        header |-> IF remaining = len THEN <<len>> ELSE <<>>]
         IN  <<buffer>> \o ChunksBuilt(tag, len, remaining - size)

\* Lines 130-173 for a Message::Message item whose serialization has length
\* len.  The inner sink answers Ready to the first `accepted` chunks and
\* NotReady to the next one, if there is a next one; the item is then handed
\* back and is the one passed to start_send again.
start_send(len, accepted) ==
    LET tag == sending_tag
        chunks == ChunksBuilt(tag, len, len)
    IN  /\ accepted <= Len(chunks)
        /\ sending_tag' = NextTag(sending_tag)
        /\ inner' = inner \o SubSeq(chunks, 1, accepted)
        /\ not_ready' = IF accepted < Len(chunks) THEN <<len>> ELSE <<>>
        /\ not_ready_answers' = IF accepted < Len(chunks)
                                THEN not_ready_answers + 1
                                ELSE not_ready_answers
        /\ not_ready_answers' <= MaxNotReady

\* NimiqMessage::peek_length: the length in the header a message starts with;
\* read from bytes that are no header it is whatever these bytes spell.
peek_length(chunk, junk) == IF chunk.header # <<>> THEN chunk.header[1] ELSE junk

\* Lines 242-298: the while loop over ws_queue.
RECURSIVE poll_loop(_, _, _, _)
poll_loop(queue, rtag, buf, junk) ==
    IF queue = <<>>
    THEN [result |-> "NotReady", ws_queue |-> queue, receiving_tag |-> rtag, msg_buf |-> buf]
    ELSE LET ws_msg == Head(queue)
             rest == Tail(queue)
             msg_size == peek_length(ws_msg, junk)
         IN
         IF buf = <<>> /\ msg_size > MAX_MESSAGE_SIZE
         THEN [result |-> "MessageSizeExceeded", ws_queue |-> rest,
               receiving_tag |-> rtag, msg_buf |-> buf]
         ELSE LET buf1 == IF buf = <<>> THEN [capacity |-> msg_size, len |-> 0] ELSE buf[1]
                  rtag1 == IF buf = <<>> THEN NextTag(rtag) ELSE rtag
                  remaining == buf1.capacity - buf1.len
              IN
              IF rtag1 # ws_msg.tag
              THEN [result |-> "TagMismatch", ws_queue |-> rest,
                    receiving_tag |-> rtag1, msg_buf |-> <<buf1>>]
              ELSE IF ws_msg.len > remaining
              THEN [result |-> "FinalChunkSizeExceeded", ws_queue |-> rest,
                    receiving_tag |-> rtag1, msg_buf |-> <<buf1>>]
              ELSE IF remaining - ws_msg.len = 0
              THEN [result |-> "Message", ws_queue |-> rest,
                    receiving_tag |-> rtag1, msg_buf |-> <<>>]
              ELSE poll_loop(rest, rtag1,
                             <<[buf1 EXCEPT !.len = buf1.len + ws_msg.len]>>, junk)

\* Lines 212-216: the place of the first frame longer than MAX_CHUNK_SIZE among
\* the frames the layer has ready, 0 if there is none.
FirstOversized(frames) ==
    LET over == {i \in 1..Len(frames) : frames[i].len + 1 > MAX_CHUNK_SIZE}
    IN  IF over = {} THEN 0 ELSE CHOOSE i \in over : \A j \in over : i <= j

\* Lines 194-299: the layer has `ready` frames to hand over before it answers
\* NotReady.
poll(ready, junk) ==
    LET frames == SubSeq(inner, 1, ready)
        over == FirstOversized(frames)
        pushed == IF over > 0 THEN SubSeq(frames, 1, over - 1) ELSE frames
        taken == IF over > 0 THEN over ELSE ready
        queue == ws_queue \o pushed
        r == poll_loop(queue, receiving_tag, msg_buf, junk)
    IN  /\ inner' = SubSeq(inner, taken + 1, Len(inner))
        /\ IF over > 0
           THEN /\ poll_result' = "ChunkSizeExceeded"
                /\ ws_queue' = queue
                /\ UNCHANGED <<receiving_tag, msg_buf>>
           ELSE /\ poll_result' = r.result
                /\ ws_queue' = r.ws_queue
                /\ receiving_tag' = r.receiving_tag
                /\ msg_buf' = r.msg_buf

PollErrors ==
    {"ChunkSizeExceeded", "MessageSizeExceeded", "TagMismatch", "FinalChunkSizeExceeded"}

\* The sender's owner sends a message, or sends again the one handed back; the
\* inner sink accepts no more chunks than MaxInFlight leaves room for.
StartSend ==
    /\ \E len \in (IF not_ready = <<>> THEN MessageLengths ELSE {not_ready[1]}),
          accepted \in 0..(MaxInFlight - Len(inner) - Len(ws_queue)) :
           start_send(len, accepted)
    /\ UNCHANGED <<receiving_tag, ws_queue, msg_buf, poll_result>>
    /\ UNCHANGED <<validator_registry, batch_vars, slash_vars, epoch_vars, nat_vars>>

\* The receiver's owner polls the stream until a poll returns an error.
Poll ==
    /\ poll_result \notin PollErrors
    /\ \E ready \in 0..Len(inner), junk \in MessageLengths : poll(ready, junk)
    /\ UNCHANGED <<sending_tag, not_ready, not_ready_answers>>
    /\ UNCHANGED <<validator_registry, batch_vars, slash_vars, epoch_vars, nat_vars>>

InitStream ==
    /\ validator_registry = <<>>
    /\ BatchIdle
    /\ SlashIdle
    /\ EpochIdle
    /\ NatDefault
    /\ StreamNew

NextStream == StartSend \/ Poll

SpecStream == InitStream /\ [][NextStream]_vars

(* ------------------- claims: finalize_previous_batch ------------------- *)

\* The sum of a sequence of numbers.
RECURSIVE SumSeq(_)
SumSeq(s) == IF s = <<>> THEN 0 ELSE Head(s) + SumSeq(Tail(s))

\* The sum of the values of the Reward inherents of a list.
RECURSIVE SumRewardValues(_)
SumRewardValues(list) ==
    IF list = <<>> THEN 0
    ELSE (IF Head(list).ty = "Reward" THEN Head(list).value ELSE 0)
         + SumRewardValues(Tail(list))

\* finalize_previous_batch returned a list for a batch index other than 0.
ReturnedForLaterBatch == pc = "returned" /\ batch_number - 1 # 0

\* finalize_previous_batch ended for a batch index other than 0, with a list or
\* with a panic, on a network that has a validator registry.
EndedForLaterBatch ==
    /\ pc \in {"returned", "panic"}
    /\ batch_number - 1 # 0
    /\ validator_registry # <<>>

C2_AllSlashedBurnsPot ==
    (EndedForLaterBatch /\ lost_rewards_set \cap disabled_set = 0..(SLOTS - 1))
    => /\ pc = "returned"
       /\ inherents = <<Inherent("Reward", BurnAddress, block_reward + cum_tx_fees, <<>>),
                        Inherent("FinalizeBatch", ValidatorRegistryAddress, 0, <<>>)>>
       /\ index = 0

\* C3: with every band's reward target rejecting, the call returns the burn
\* inherent carrying reward_pot followed by FinalizeBatch.
C3_AllRejectedBurnsPot ==
    (/\ EndedForLaterBatch
     /\ Len(answers) = Len(validator_slots)
     /\ \A k \in 1..Len(answers) : ~answers[k])
    => /\ pc = "returned"
       /\ inherents = <<Inherent("Reward", BurnAddress, block_reward + cum_tx_fees, <<>>),
                        Inherent("FinalizeBatch", ValidatorRegistryAddress, 0, <<>>)>>

\* C4: the remainder is below SLOTS and is added to the one accepted band
\* inherent the lottery drew; every other band inherent carries slot_reward *
\* eligible, and the burn inherent carries whole slot rewards only.
C4_RemainderToOneInherent ==
    ReturnedForLaterBatch =>
        LET n == Len(inherents) - 2
            slot_reward == (block_reward + cum_tx_fees) \div SLOTS
            remainder == (block_reward + cum_tx_fees) % SLOTS
            eligible == num_eligible_slots_for_accepted_inherent
        IN  /\ 0 <= remainder /\ remainder < SLOTS
            /\ Len(eligible) = n
            /\ index \in 1..n
            /\ \A k \in 1..n :
                   inherents[k].value =
                       slot_reward * eligible[k] + (IF k = index THEN remainder ELSE 0)
            /\ inherents[n + 1].value = slot_reward * (SLOTS - SumSeq(eligible))

\* A list was returned with two accepted band inherents, a slot reward and a
\* remainder.
C4_Witness ==
    /\ ReturnedForLaterBatch
    /\ Len(inherents) >= 4
    /\ (block_reward + cum_tx_fees) \div SLOTS > 0
    /\ (block_reward + cum_tx_fees) % SLOTS > 0

\* C5: when the batch index being finalized is 0 the call returns the empty
\* list at once: no band is visited, no acceptance is queried, no lottery drawn.
C5_GenesisReturnsEmpty ==
    (batch_number - 1 = 0) =>
        /\ pc \in {"start", "returned"}
        /\ inherents = <<>>
        /\ answers = <<>>
        /\ index = 0

\* The call returned for batch index 0 with slashed slots and fees at hand.
C5_Witness ==
    /\ pc = "returned"
    /\ batch_number - 1 = 0
    /\ lost_rewards_set \cap disabled_set # {}
    /\ cum_tx_fees > 0
    /\ block_reward > 0

\* C6: the returned list ends with the burn inherent carrying burned_reward
\* (also when it is 0) and then FinalizeBatch; before them come the accepted
\* band Reward inherents in band order.
C6_TrailingInherents ==
    ReturnedForLaterBatch =>
        LET n == Len(inherents) IN
        /\ n >= 2
        /\ inherents[n] = [ty |-> "FinalizeBatch", target |-> ValidatorRegistryAddress,
                           value |-> 0, data |-> <<>>]
        /\ inherents[n - 1] = [ty |-> "Reward", target |-> BurnAddress,
                               value |-> burned_reward, data |-> <<>>]
        /\ \A k \in 1..(n - 2) :
               /\ inherents[k].ty = "Reward"
               /\ inherents[k].target.kind = "reward_address"
               /\ inherents[k].data = <<>>
               /\ \A j \in 1..(k - 1) : inherents[j].target.id < inherents[k].target.id

\* A list was returned with nothing burned and two band inherents.
C6_Witness ==
    /\ ReturnedForLaterBatch
    /\ burned_reward = 0
    /\ Len(inherents) >= 4

\* C7: a band whose target rejects adds its whole reward to burned_reward and
\* leaves the inherents and the lottery weights alone; a band whose target
\* accepts appends its inherent and records eligible as its weight; either way
\* the loop goes on to the next band.
C7_RejectBurnsAcceptRecords ==
    [][pc = "reward" =>
        LET accepted == answers'[Len(answers')]
            slot_reward == (block_reward + cum_tx_fees) \div SLOTS
            reward == slot_reward * num_eligible_slots
        IN  /\ Len(answers') = Len(answers) + 1
            /\ pc' = "band"
            /\ band' = band + 1
            /\ IF accepted
               THEN /\ inherents' = Append(inherents,
                           [ty |-> "Reward", target |-> validator_slots[band].reward_address,
                            value |-> reward, data |-> <<>>])
                    /\ num_eligible_slots_for_accepted_inherent' =
                           Append(num_eligible_slots_for_accepted_inherent, num_eligible_slots)
                    /\ burned_reward' = burned_reward + slot_reward * num_slashed_slots
               ELSE /\ inherents' = inherents
                    /\ num_eligible_slots_for_accepted_inherent' =
                           num_eligible_slots_for_accepted_inherent
                    /\ burned_reward' =
                           burned_reward + slot_reward * num_slashed_slots + reward
    ]_vars

\* A first band was rejected with a reward to burn, and a later band accepted.
C7_Witness ==
    /\ pc = "band"
    /\ Len(answers) >= 2
    /\ ~answers[1]
    /\ answers[Len(answers)]
    /\ burned_reward > 0
    /\ Len(inherents) = 1

(* -------------------- claims: create_slash_inherents ------------------- *)

\* C8: the returned list holds len(fork_proofs) inherents plus, when view
\* changes are given, last_view_number - first_view_number.
C8_SlashCount ==
    sl_pc = "returned" =>
        Len(sl_inherents) =
            Len(fork_proofs)
            + (IF view_changes = <<>> THEN 0
               ELSE view_changes[1].last_view_number - view_changes[1].first_view_number)

\* A list was returned for two fork proofs and view changes spanning two views.
C8_Witness ==
    /\ sl_pc = "returned"
    /\ Len(fork_proofs) >= 2
    /\ view_changes # <<>>
    /\ view_changes[1].last_view_number - view_changes[1].first_view_number >= 2

\* C9: the i-th element is the inherent of the i-th fork proof, and the
\* view-change inherents follow all of them in ascending view-number order.
C9_ForkProofsThenViewChanges ==
    sl_pc = "returned" =>
        LET n == Len(fork_proofs) IN
        /\ Len(sl_inherents) >= n
        /\ \A i \in 1..n :
               sl_inherents[i] = inherent_from_fork_proof(ValidatorRegistryAddress,
                                                          fork_proofs[i])
        /\ \A k \in (n + 1)..Len(sl_inherents) :
               /\ view_changes # <<>>
               /\ sl_inherents[k] =
                      inherent_from_view_change(ValidatorRegistryAddress, view_changes[1],
                          view_changes[1].first_view_number + (k - n - 1))

\* A list was returned for two different fork proofs and two view changes.
C9_Witness ==
    /\ sl_pc = "returned"
    /\ Len(fork_proofs) = 2
    /\ fork_proofs[1] # fork_proofs[2]
    /\ Len(sl_inherents) >= 4

\* C10: inherents_from_view_changes emits, in order, one Slash inherent for each
\* view v with first_view_number <= v < last_view_number, naming the producer
\* and slot resolved at (block_number, v) with event_block = block_number, and
\* none for last_view_number.
C10_HalfOpenViewRange ==
    (sl_pc = "returned" /\ view_changes # <<>>) =>
        LET vc == view_changes[1]
            expected(v) ==
                [ty |-> "Slash", target |-> ValidatorRegistryAddress, value |-> 0,
                 data |-> <<get_slot_at(vc.block_number, v).slot,
                            get_slot_at(vc.block_number, v).producer.public_key,
                            vc.block_number>>]
        IN  /\ Len(vc_inherents) = vc.last_view_number - vc.first_view_number
            /\ \A v \in vc.first_view_number..(vc.last_view_number - 1) :
                   vc_inherents[v - vc.first_view_number + 1] = expected(v)
            /\ \A k \in 1..Len(vc_inherents) :
                   vc_inherents[k] # expected(vc.last_view_number)

\* inherents_from_view_changes returned for a range of two views.
C10_Witness ==
    /\ sl_pc = "returned"
    /\ view_changes # <<>>
    /\ view_changes[1].last_view_number = view_changes[1].first_view_number + 2
    /\ Len(vc_inherents) = 2

\* C11: every inherent made from a fork proof is a Slash inherent to the
\* validator registry with value 0 whose data is the serialized SlashedSlot:
\* the slot and the producer's public key resolved at header1's block number
\* and view number, and event_block = header1's block number.
C11_ForkProofInherent ==
    \A i \in 1..(sl_i - 1) :
        LET proof == fork_proofs[i]
            resolved == get_slot_at(proof.block_number, proof.view_number)
        IN  /\ i <= Len(sl_inherents)
            /\ sl_inherents[i] =
                   [ty |-> "Slash", target |-> ValidatorRegistryAddress, value |-> 0,
                    data |-> <<resolved.slot, resolved.producer.public_key,
                               proof.block_number>>]

\* Two fork proofs of different blocks and views were turned into inherents.
C11_Witness ==
    /\ sl_pc = "returned"
    /\ sl_i = 3
    /\ fork_proofs[1].block_number # fork_proofs[2].block_number
    /\ fork_proofs[1].view_number # fork_proofs[2].view_number
    /\ fork_proofs[1].block_number # fork_proofs[1].view_number

\* get_slot_at returned no slot for some fork proof or view number of this call.
SlotUnresolved == \E k \in 1..Len(sl_resolved) : ~sl_resolved[k]

\* C13 as stated: when the resolver cannot resolve a slot, the call ends
\* with a distinguished internal-fault result, a value handed back to the
\* caller, and not with a panic.
C13_UnresolvedIsFaultResult == SlotUnresolved => sl_pc # "panic"

\* C13 as amended: when the resolver cannot resolve a slot, the call stops at
\* that evidence with a panic: the failed lookup is the last one made, and no
\* list, partial or with the evidence skipped, is ever returned.
C13_UnresolvedPanics ==
    /\ SlotUnresolved =>
           /\ sl_pc = "panic"
           /\ \A k \in 1..(Len(sl_resolved) - 1) : sl_resolved[k]
    /\ sl_pc = "returned" => ~SlotUnresolved

\* The resolver failed on a view number after a fork proof and an earlier view
\* had been turned into inherents.
C13_Witness ==
    /\ SlotUnresolved
    /\ sl_pc = "panic"
    /\ Len(sl_inherents) >= 1
    /\ Len(vc_inherents) >= 1

(* -------------------- claims: finalize_previous_epoch ------------------ *)

\* C14: with a registry address configured the call returns the one inherent
\* {FinalizeEpoch, registry, 0, empty data}, whatever the chain and staking
\* state; with none configured it panics and returns no inherent.
C14_FinalizeEpoch ==
    ep_pc \in {"returned", "panic"} =>
        IF validator_registry # <<>>
        THEN /\ ep_pc = "returned"
             /\ ep_inherent = <<[ty |-> "FinalizeEpoch", target |-> ValidatorRegistryAddress,
                                 value |-> 0, data |-> <<>>]>>
        ELSE /\ ep_pc = "panic"
             /\ ep_inherent = <<>>

\* The call returned in a later batch with slashed slots and fees at hand.
C14_Witness ==
    /\ ep_pc = "returned"
    /\ ep_inherent # <<>>
    /\ batch_number > 1
    /\ lost_rewards_set \cap disabled_set # {}
    /\ cum_tx_fees > 0

(* --------------------------- claims: any call -------------------------- *)

SlashedInBand ==
    {s \in lost_rewards_set \cap disabled_set :
        first_slot_number <= s /\ s < first_slot_number + validator_slots[band].num_slots}

\* C16: while a band is scanned no slashed index is counted twice; once it is
\* scanned its slashed count is the number of slashed-set entries in
\* [first, last) and eligible = num_slots - that count; the candidate reward is
\* slot_reward * eligible and burned_reward grows by slot_reward * that count
\* (plus the reward itself when the target rejects).
C16_BandAccounting ==
    [][LET slot_reward == (block_reward + cum_tx_fees) \div SLOTS
           count == Cardinality(SlashedInBand)
       IN  /\ pc = "scan" =>
                  /\ num_slashed_slots <= count
                  /\ num_eligible_slots = validator_slots[band].num_slots - num_slashed_slots
           /\ pc = "reward" =>
                  /\ num_slashed_slots = count
                  /\ num_eligible_slots = validator_slots[band].num_slots - count
                  /\ burned_reward' =
                         burned_reward + slot_reward * count
                         + (IF answers'[Len(answers')] THEN 0
                            ELSE slot_reward * num_eligible_slots)
                  /\ answers'[Len(answers')] =>
                         inherents'[Len(inherents')].value = slot_reward * num_eligible_slots
    ]_vars

\* C17: the scan advances past every slashed index it counts: while a band is
\* scanned the iterator holds the slashed indices from the band's first slot on
\* less those already counted, so no index is looked at again; and the call
\* never ends in a panic while bands remain to be scanned.
C17_ScanAdvances ==
    /\ pc = "scan" =>
           Len(slashed_set_iter) =
               Cardinality({s \in lost_rewards_set \cap disabled_set :
                               s >= first_slot_number}) - num_slashed_slots
    /\ pc = "panic" => band > Len(validator_slots)

\* C18: neither assertion of the scan fails: the slashed index the iterator
\* shows is at or after the band's first slot, and when it lies inside the band
\* an eligible slot is left to take away.
C18_ScanAssertionsHold ==
    (pc = "scan" /\ slashed_set_iter # <<>>) =>
        /\ Head(slashed_set_iter) >= first_slot_number
        /\ Head(slashed_set_iter) < first_slot_number + validator_slots[band].num_slots
               => num_eligible_slots > 0

\* The slot indices of the band being scanned.
SlotsOfBand == {s \in 0..(SLOTS - 1) : s >= first_slot_number /\ s < LastSlotNumber}

C20_StatusAgreesWithMaps ==
    nat_called =>
        /\ status = "Public" <=> confirmed_addresses # {}
        /\ confirmed_addresses = {} =>
               /\ status = "Private" <=>
                      \A a \in DOMAIN listen_address_status :
                          listen_address_status[a] = "Private"
               /\ status = "Unknown" <=>
                      \E a \in DOMAIN listen_address_status :
                          listen_address_status[a] # "Private"

\* C21: the confirmed addresses are exactly the listen addresses whose recorded
\* status is Public: every confirmed address is listed with status Public, and
\* every listen address with status Public is confirmed.
C21_ConfirmedArePublicListen ==
    confirmed_addresses =
        {a \in DOMAIN listen_address_status : listen_address_status[a] = "Public"}

(* --------------------- claims: NimiqMessageStream ---------------------- *)

\* C22: a receiving stream that polls, in order, the chunks the sender's inner
\* sink accepted never returns TagMismatch, whatever Ready/NotReady answers the
\* sink gave and with every NotReady message sent again.
C22_NeverTagMismatch == poll_result # "TagMismatch"

====
